---- MODULE Spec2Model ----
(***************************************************************************)
(* Model of jira_ingest.py: the ADF text decoder                           *)
(* (JiraCrawler.extract_adf_text), the issue-to-document mapping           *)
(* (JiraCrawler._process_issue), the indexer call                          *)
(* (VectaraIndexer.index_document) and the pagination loop                 *)
(* (JiraCrawler.crawl).                                                    *)
(*                                                                         *)
(* A Python str is a sequence of one-character strings.  A JSON value is   *)
(* a record tagged by k: "null", "str" (s), "num" (n), "list" (items) or   *)
(* "dict" (m, a function from the member names that are present to JSON    *)
(* values).  A call either returns a value, [k |-> "ret", v |-> value],    *)
(* or raises, [k |-> "raise", exc |-> exception class].                    *)
(***************************************************************************)
EXTENDS Integers, Sequences, FiniteSets, TLC

\* ------------------------------------------------------------------------
\* Bounds of the model
\* ------------------------------------------------------------------------
MaxTotal == 3

MaxDepth == 2

\* max_results of the run (issues per page request)
PageSize == 2

\* ------------------------------------------------------------------------
\* Python / JSON values
\* ------------------------------------------------------------------------
Null == [k |-> "null"]

Str(s) == [k |-> "str", s |-> s]

Num(n) == [k |-> "num", n |-> n]

List(items) == [k |-> "list", items |-> items]

Bool(b) == [k |-> "bool", b |-> b]

Dict(m) == [k |-> "dict", m |-> m]

\* Marks a member left out of a dict built by DictOf
Absent == [k |-> "absent"]

\* The dict with the members of f that are not Absent
DictOf(f) == Dict([x \in {y \in DOMAIN f : f[y].k # "absent"} |-> f[x]])

EmptyDict == Dict(<<>>)

Ret(v) == [k |-> "ret", v |-> v]

Raise(e) == [k |-> "raise", exc |-> e]

\* Python truth value of a JSON value ("if x:", "if not x:")
Truthy(v) ==
    CASE v.k = "null" -> FALSE
      [] v.k = "str"  -> v.s # <<>>
      [] v.k = "num"  -> v.n # 0
      [] v.k = "bool" -> v.b
      [] v.k = "list" -> v.items # <<>>
      [] v.k = "dict" -> DOMAIN v.m # {}

\* d.get(name, default) on a dict d
Get(d, name, default) == IF name \in DOMAIN d.m THEN d.m[name] ELSE default

\* x == "literal" for a Python value x
IsStr(v, s) == v.k = "str" /\ v.s = s

\* "for item in x": the items iterated, or a TypeError for a value that is
\* not iterable.  A str iterates over its characters.
Iter(v) ==
    CASE v.k = "list" -> Ret(v.items)
      [] v.k = "str"  -> Ret([i \in 1..Len(v.s) |-> Str(<<v.s[i]>>)])
      [] OTHER        -> Raise("TypeError")

\* format(x) inside an f-string
Fmt(v) ==
    CASE v.k = "str"  -> v.s
      [] v.k = "null" -> <<"N", "o", "n", "e">>
      [] v.k = "num"  -> <<ToString(v.n)>>
      [] v.k = "bool" -> IF v.b THEN <<"T", "r", "u", "e">> ELSE <<"F", "a", "l", "s", "e">>
      [] v.k = "list" -> <<"[", "]">>
      [] v.k = "dict" -> <<"{", "}">>

\* ------------------------------------------------------------------------
\* str operations
\* ------------------------------------------------------------------------
IsSpace(c) == c \in {" ", "\n", "\t"}

RECURSIVE LStrip(_)
LStrip(s) == IF s # <<>> /\ IsSpace(Head(s)) THEN LStrip(Tail(s)) ELSE s

RECURSIVE RStrip(_)
RStrip(s) ==
    IF s # <<>> /\ IsSpace(s[Len(s)]) THEN RStrip(SubSeq(s, 1, Len(s) - 1)) ELSE s

\* s.strip()
Strip(s) == RStrip(LStrip(s))

\* "".join(parts) for a sequence of str
RECURSIVE Concat(_)
Concat(parts) == IF parts = <<>> THEN <<>> ELSE Head(parts) \o Concat(Tail(parts))

\* sep.join(parts) for a sequence of str
RECURSIVE Join(_, _)
Join(sep, parts) ==
    IF parts = <<>> THEN <<>>
    ELSE IF Len(parts) = 1 THEN Head(parts)
    ELSE Head(parts) \o sep \o Join(sep, Tail(parts))

\* The literals of the decoder
TwoNL == <<"\n", "\n">>

\* "U+2022" stands for the one character BULLET (U+2022) of the source
Bullet == <<"U+2022", " ">>

CodeOpen == <<"[", "C", "O", "D", "E", ":", " ">>

\* ------------------------------------------------------------------------
\* JiraCrawler.extract_adf_text
\* ------------------------------------------------------------------------
RECURSIVE extract_adf_text(_)

\* [extract_adf_text(item) for item in items]: the values returned, in order,
\* or the first exception raised
RECURSIVE DecodeEach(_)
DecodeEach(items) ==
    IF items = <<>> THEN Ret(<<>>)
    ELSE LET h == extract_adf_text(Head(items)) IN
         IF h.k = "raise" THEN h
         ELSE LET t == DecodeEach(Tail(items)) IN
              IF t.k = "raise" THEN t ELSE Ret(<<h.v>> \o t.v)

\* "".join(values): a TypeError when a value is not a str
JoinValues(vals) ==
    IF \A i \in 1..Len(vals) : vals[i].k = "str"
    THEN Ret(Concat([i \in 1..Len(vals) |-> vals[i].s]))
    ELSE Raise("TypeError")

\* The loop "for item in <iterable>: parts.append(self.extract_adf_text(item))"
\* followed by "".join(parts)
DecodeJoin(iterable) ==
    LET it == Iter(iterable) IN
    IF it.k = "raise" THEN it
    ELSE LET parts == DecodeEach(it.v) IN
         IF parts.k = "raise" THEN parts ELSE JoinValues(parts.v)

\* The same loop over adf_content.get("content", [])
DecodeContent(node) == DecodeJoin(Get(node, "content", List(<<>>)))

\* The list loop: list_items.append(BULLET + " " + extract_adf_text(item).strip())
RECURSIVE ListItems(_)
ListItems(items) ==
    IF items = <<>> THEN Ret(<<>>)
    ELSE LET h == extract_adf_text(Head(items)) IN
         IF h.k = "raise" THEN h
         ELSE IF h.v.k # "str" THEN Raise("AttributeError")
         ELSE LET t == ListItems(Tail(items)) IN
              IF t.k = "raise" THEN t
              ELSE Ret(<<Bullet \o Strip(h.v.s)>> \o t.v)

\* The list rendering with one trailing line break (a variant the list
\* property must tell from the source's)
DecodeList_OneBreak(node) ==
    LET it == Iter(Get(node, "content", List(<<>>))) IN
    IF it.k = "raise" THEN it
    ELSE LET items == ListItems(it.v) IN
         IF items.k = "raise" THEN items
         ELSE Ret(Str(Join(<<"\n">>, items.v) \o <<"\n">>))

DecodeList(node) ==
    LET it == Iter(Get(node, "content", List(<<>>))) IN
    IF it.k = "raise" THEN it
    ELSE LET items == ListItems(it.v) IN
         IF items.k = "raise" THEN items
         ELSE Ret(Str(Join(<<"\n">>, items.v) \o TwoNL))

DecodeInlineCard(node) ==
    LET attrs == Get(node, "attrs", EmptyDict) IN
    IF attrs.k # "dict" THEN Raise("AttributeError")
    ELSE Ret(Str(<<"[">> \o Fmt(Get(attrs, "url", Str(<<>>))) \o <<"]", " ">>))

\* pre + "".join(parts) + post for the joined text r, or the exception of r
Suffixed(r, pre, post) == IF r.k = "raise" THEN r ELSE Ret(Str(pre \o r.v \o post))

\* The node kinds of the decoder
K_text == <<"t", "e", "x", "t">>

K_paragraph == <<"p", "a", "r", "a", "g", "r", "a", "p", "h">>

K_heading == <<"h", "e", "a", "d", "i", "n", "g">>

K_bulletList == <<"b", "u", "l", "l", "e", "t", "L", "i", "s", "t">>

K_orderedList == <<"o", "r", "d", "e", "r", "e", "d", "L", "i", "s", "t">>

K_listItem == <<"l", "i", "s", "t", "I", "t", "e", "m">>

K_codeBlock == <<"c", "o", "d", "e", "B", "l", "o", "c", "k">>

K_inlineCard == <<"i", "n", "l", "i", "n", "e", "C", "a", "r", "d">>

K_doc == <<"d", "o", "c">>

DecodeDict(node) ==
    LET content_type == Get(node, "type", Str(<<>>)) IN
    CASE IsStr(content_type, K_text) ->
           Ret(Get(node, "text", Str(<<>>)))
      [] IsStr(content_type, K_paragraph) \/ IsStr(content_type, K_heading) ->
           Suffixed(DecodeContent(node), <<>>, TwoNL)
      [] IsStr(content_type, K_bulletList) \/ IsStr(content_type, K_orderedList) ->
           DecodeList(node)
      [] IsStr(content_type, K_listItem) ->
           Suffixed(DecodeContent(node), <<>>, <<>>)
      [] IsStr(content_type, K_codeBlock) ->
           Suffixed(DecodeContent(node), CodeOpen, <<"]">> \o TwoNL)
      [] IsStr(content_type, K_inlineCard) ->
           DecodeInlineCard(node)
      [] IsStr(content_type, K_doc) ->
           Suffixed(DecodeContent(node), <<>>, <<>>)
      [] OTHER ->
           IF "content" \in DOMAIN node.m
           THEN Suffixed(DecodeContent(node), <<>>, <<>>)
           ELSE Ret(Str(<<>>))

extract_adf_text(adf_content) ==
    IF ~Truthy(adf_content) THEN Ret(Str(<<>>))
    ELSE CASE adf_content.k = "str"  -> Ret(adf_content)
           [] adf_content.k = "dict" -> DecodeDict(adf_content)
           [] adf_content.k = "list" -> Suffixed(DecodeJoin(adf_content), <<>>, <<>>)
           [] OTHER                  -> Ret(Str(<<>>))

\* ------------------------------------------------------------------------
\* JiraCrawler._process_issue: the mapping of an issue to a document
\* ------------------------------------------------------------------------
UnknownKey == Str(<<"u", "n", "k", "n", "o", "w", "n">>)

UnknownName == Str(<<"U", "n", "k", "n", "o", "w", "n">>)

NoComments == <<"N", "o", " ", "c", "o", "m", "m", "e", "n", "t", "s">>

IssuePrefix == <<"I", "s", "s", "u", "e", ":", " ">>

BaseUrl == <<"h", ":">>

\* The fields whose member "name" or "displayName" goes to the metadata
NamedFields == {"project", "issuetype", "status", "priority", "reporter", "assignee"}

NameMember(f) == IF f \in {"reporter", "assignee"} THEN "displayName" ELSE "name"

\* The fields copied to the metadata as they are
PlainFields == {"created", "updated", "resolutiondate", "labels"}

MetaKey(f) ==
    CASE f = "issuetype"      -> "issueType"
      [] f = "updated"        -> "last_updated"
      [] f = "resolutiondate" -> "resolved"
      [] OTHER                -> f

\* metadata of lines 384-409, for fields whose named members are all dicts
Metadata(issue_key, fields) ==
    LET present == {f \in NamedFields \cup PlainFields : Truthy(Get(fields, f, Null))}
        keys == {"source", "url"} \cup {MetaKey(f) : f \in present}
        field(key) == CHOOSE f \in present : MetaKey(f) = key
    IN [key \in keys |->
          CASE key = "source" -> Str(<<"j", "i", "r", "a">>)
            [] key = "url"    -> Str(BaseUrl \o <<"/", "b", "r", "o", "w", "s", "e", "/">> \o Fmt(issue_key))
            [] OTHER ->
                 IF field(key) \in NamedFields
                 THEN Get(fields.m[field(key)], NameMember(field(key)), Str(<<>>))
                 ELSE fields.m[field(key)]]

\* The description without the blank test of line 415 (a variant the
\* description property must tell from the source's)
Description_NoStrip(issue_key, fields) ==
    LET description_content == Get(fields, "description", Null)
        r == IF Truthy(description_content)
             THEN extract_adf_text(description_content)
             ELSE Ret(Str(<<>>))
    IN IF r.k = "raise" THEN r
       ELSE IF r.v.k # "str" THEN Raise("AttributeError")
       ELSE IF r.v.s = <<>> THEN Ret(IssuePrefix \o Fmt(issue_key))
       ELSE Ret(r.v.s)

\* Lines 412-419: the description text, or the exception raised
Description(issue_key, fields) ==
    LET description_content == Get(fields, "description", Null)
        r == IF Truthy(description_content)
             THEN extract_adf_text(description_content)
             ELSE Ret(Str(<<>>))
    IN IF r.k = "raise" THEN r
       ELSE IF r.v.k # "str" THEN Raise("AttributeError")
       ELSE IF Strip(r.v.s) = <<>> THEN Ret(IssuePrefix \o Fmt(issue_key))
       ELSE Ret(r.v.s)

\* The comments rendered without trimming the body (a variant the comments
\* property must tell from the source's)
RECURSIVE Comments_Untrimmed(_)
Comments_Untrimmed(comments_data) ==
    IF comments_data = <<>> THEN Ret(<<>>)
    ELSE LET comment == Head(comments_data) IN
         IF comment.k # "dict" THEN Raise("AttributeError")
         ELSE LET a == Get(comment, "author", EmptyDict) IN
              IF a.k # "dict" THEN Raise("AttributeError")
              ELSE LET author == Get(a, "displayName", UnknownName)
                       body == extract_adf_text(Get(comment, "body", EmptyDict))
                       kept == body.k = "ret" /\ body.v.k = "str"
                                 /\ Strip(body.v.s) # <<>>
                       rest == Comments_Untrimmed(Tail(comments_data))
                   IN IF rest.k = "raise" THEN rest
                      ELSE IF kept
                      THEN Ret(<<Fmt(author) \o <<":", " ">> \o body.v.s>>
                                 \o rest.v)
                      ELSE rest

\* Lines 424-432: the rendered comments, in order, or the exception raised
RECURSIVE Comments(_)
Comments(comments_data) ==
    IF comments_data = <<>> THEN Ret(<<>>)
    ELSE LET comment == Head(comments_data) IN
         IF comment.k # "dict" THEN Raise("AttributeError")
         ELSE LET a == Get(comment, "author", EmptyDict) IN
              IF a.k # "dict" THEN Raise("AttributeError")
              ELSE LET author == Get(a, "displayName", UnknownName)
                       body == extract_adf_text(Get(comment, "body", EmptyDict))
                       kept == body.k = "ret" /\ body.v.k = "str"
                                 /\ Strip(body.v.s) # <<>>
                       rest == Comments(Tail(comments_data))
                   IN IF rest.k = "raise" THEN rest
                      ELSE IF kept
                      THEN Ret(<<Fmt(author) \o <<":", " ">> \o Strip(body.v.s)>>
                                 \o rest.v)
                      ELSE rest

\* Lines 380-456: the document built for an issue, or the exception raised
BuildDocument(issue) ==
    IF issue.k # "dict" THEN Raise("AttributeError")
    ELSE
    LET issue_key == Get(issue, "key", UnknownKey)
        fields == Get(issue, "fields", EmptyDict)
    IN
    IF fields.k # "dict" THEN Raise("AttributeError")
    ELSE IF \E f \in NamedFields :
              Truthy(Get(fields, f, Null)) /\ Get(fields, f, Null).k # "dict"
    THEN Raise("AttributeError")
    ELSE
    LET description == Description(issue_key, fields)
        comment == Get(fields, "comment", EmptyDict)
    IN
    IF description.k = "raise" THEN description
    ELSE IF comment.k # "dict" THEN Raise("AttributeError")
    ELSE
    LET it == Iter(Get(comment, "comments", List(<<>>))) IN
    IF it.k = "raise" THEN it
    ELSE
    LET comments == Comments(it.v)
        title == Get(fields, "summary", issue_key)
        status == Get(fields, "status", EmptyDict)
    IN
    IF comments.k = "raise" THEN comments
    ELSE IF status.k # "dict" THEN Raise("AttributeError")
    ELSE
    LET status_text == Get(status, "name", UnknownName) IN
    Ret([id |-> issue_key,
         title |-> title,
         metadata |-> Metadata(issue_key, fields),
         sections |-> <<
           [title |-> "Description", text |-> description.v],
           [title |-> "Comments",
            text |-> IF comments.v # <<>>
                     THEN Join(TwoNL, comments.v) ELSE NoComments],
           [title |-> "Status",
            text |-> <<"I", "s", "s", "u", "e", " ">> \o Fmt(title) \o <<" ", "i", "s", " ">> \o Fmt(status_text)]>>])

\* ------------------------------------------------------------------------
\* The issue source and the index collaborator
\* ------------------------------------------------------------------------
\* The shapes of issue record the source holds: a complete issue, an issue
\* whose status member is JSON null, and an entry that is not an object
Shapes == {"good", "nullStatus", "notDict"}

KeyOf(i) == Str(<<"K", ToString(i)>>)

IssueOf(i, shape) ==
    CASE shape = "good" ->
           Dict([key |-> KeyOf(i),
                 fields |-> Dict([summary |-> Str(<<"s">>),
                                  status |-> Dict([name |-> Str(<<"O", "K">>)])])])
      [] shape = "nullStatus" ->
           Dict([key |-> KeyOf(i),
                 fields |-> Dict([summary |-> Str(<<"s">>), status |-> Null])])
      [] shape = "notDict" -> Null

\* The result sets of the filter query: up to MaxTotal issues of any shape
ResultSets ==
    UNION {{[i \in 1..n |-> IssueOf(i, sh[i])] : sh \in [1..n -> Shapes]} : n \in 0..MaxTotal}

\* The continuation token that stands for "continue after position p"
Tok(p) == Str(<<"t", ToString(p)>>)

\* The position a request's cursor stands for: 0 for no token
PosOf(token) ==
    IF token.k = "str" /\ \E p \in 1..MaxTotal : Tok(p) = token
    THEN CHOOSE p \in 1..MaxTotal : Tok(p) = token
    ELSE 0

\* The HTTP outcomes of a submission to the index: accepted, already
\* present, rejected, or a transport fault inside requests.post
IndexOutcomes == {"200", "409", "500", "exception"}

\* index_document with a rejected submission reported as a success
index_document_RejectedIsSuccess(outcome) == outcome # "exception"

\* VectaraIndexer.index_document: the bool returned for an outcome
index_document(outcome) ==
    CASE outcome = "200" -> TRUE
      [] outcome = "409" -> TRUE
      [] outcome = "exception" -> FALSE
      [] OTHER -> FALSE

\* ------------------------------------------------------------------------
\* State
\* ------------------------------------------------------------------------
VARIABLES
    api_version,      \* JiraCrawler.api_version: 2 (offset mode) or 3 (token mode)
    resultSet,        \* the issues the source holds for the filter query
    pc,               \* position of crawl: "fetch", "process", "paginate",
                      \* "returned", "raised"; of a single call: "decode",
                      \* "decoded", "map", "mapped"
    start_at,         \* local start_at of crawl
    next_page_token,  \* local next_page_token of crawl
    issue_count,      \* local issue_count of crawl
    data,             \* the page response being processed
    idx,              \* position of the "for issue in issues" loop
    result,           \* the value crawl returned, or the exception it raised
    exchanges,        \* history: every page request sent, [params, response]
    indexCalls,       \* history: every index_document call, [id, outcome]
    pageLog,          \* history: what happened to each issue of the current page
    faultAt,          \* history: the page-fetch fault, if one happened
    input,            \* argument of a single decoder or mapping call
    output            \* what that call returned or raised

vars == <<api_version, resultSet, pc, start_at, next_page_token, issue_count,
          data, idx, result, exchanges, indexCalls, pageLog, faultAt, input,
          output>>

None == [k |-> "none"]

\* The response recorded for a page request that faulted
Fault == [k |-> "fault"]

N == Len(resultSet)

Min(a, b) == IF a <= b THEN a ELSE b

Max(a, b) == IF a >= b THEN a ELSE b

\* data.get("issues", [])
Issues == Get(data, "issues", List(<<>>))

\* ------------------------------------------------------------------------
\* JiraCrawler.crawl
\* ------------------------------------------------------------------------
\* Lines 290-292
CrawlInit ==
    /\ api_version \in {2, 3}
    /\ resultSet \in ResultSets
    /\ pc = "fetch"
    /\ start_at = 0
    /\ next_page_token = Null
    /\ issue_count = 0
    /\ data = None
    /\ idx = 0
    /\ result = None
    /\ exchanges = <<>>
    /\ indexCalls = <<>>
    /\ pageLog = <<>>
    /\ faultAt = None
    /\ input = None
    /\ output = None

\* Params with the continuation token never sent
Params_NoToken ==
    IF api_version = 2
    THEN DictOf([maxResults |-> Num(PageSize), startAt |-> Num(start_at),
                 nextPageToken |-> Absent])
    ELSE DictOf([maxResults |-> Num(PageSize), startAt |-> Absent,
                 nextPageToken |-> Absent])

\* Lines 296-316: the params of the next page request
Params ==
    IF api_version = 2
    THEN DictOf([maxResults |-> Num(PageSize), startAt |-> Num(start_at),
                 nextPageToken |-> Absent])
    ELSE DictOf([maxResults |-> Num(PageSize), startAt |-> Absent,
                 nextPageToken |-> IF Truthy(next_page_token)
                                   THEN next_page_token ELSE Absent])

\* The position in the result set that the params of a request ask to
\* continue from
CursorOf(params) ==
    IF "startAt" \in DOMAIN params.m THEN params.m.startAt.n
    ELSE IF "nextPageToken" \in DOMAIN params.m THEN PosOf(params.m.nextPageToken)
    ELSE 0

\* A page that carries the pagination members of both modes, with those of
\* the mode not in use saying the opposite of those of the mode in use
MixedResponse(issues, total, isLast, token) ==
    DictOf([issues |-> issues, total |-> total, isLast |-> isLast,
            nextPageToken |-> token])

\* The pages a source can answer a request with: up to PageSize issues from
\* the requested position on, with any pagination metadata (a total is
\* missing, null or any number up to MaxTotal, which is below, at or above
\* the length of the result set); the first full page may also carry the
\* members of both modes
Responses(params) ==
    LET cursor == CursorOf(params)
        avail == IF cursor >= N THEN 0 ELSE N - cursor
        page(n) == List(SubSeq(resultSet, cursor + 1, cursor + n))
    IN IF "startAt" \in DOMAIN params.m
       THEN {DictOf([issues |-> page(n), total |-> t]) :
               n \in 0..Min(PageSize, avail),
               t \in {Absent, Null} \cup {Num(x) : x \in 0..MaxTotal}}
            \cup {MixedResponse(page(n), Num(N), Bool(TRUE), Tok(n)) :
                    n \in IF cursor = 0 THEN {Min(PageSize, avail)} ELSE {}}
       ELSE UNION {{DictOf([issues |-> page(n), isLast |-> l, nextPageToken |-> t]) :
                      l \in {Absent, Bool(TRUE), Bool(FALSE)},
                      t \in {Absent, Str(<<>>), Tok(cursor + n)}} :
                   n \in 0..Min(PageSize, avail)}
            \cup {MixedResponse(page(n), Num(0), Bool(FALSE), Tok(n)) :
                    n \in IF cursor = 0 THEN {Min(PageSize, avail)} ELSE {}}

\* The page the static, well-behaved source answers a request with
StaticResponse(params) ==
    LET cursor == CursorOf(params)
        n == IF cursor >= N THEN 0 ELSE Min(PageSize, N - cursor)
        page == List(SubSeq(resultSet, cursor + 1, cursor + n))
    IN IF "startAt" \in DOMAIN params.m
       THEN DictOf([issues |-> page, total |-> Num(N)])
       ELSE DictOf([issues |-> page, isLast |-> Bool(cursor + n >= N),
                    nextPageToken |-> IF cursor + n >= N THEN Absent
                                      ELSE Tok(cursor + n)])

\* Lines 367-368
Return ==
    /\ pc' = "returned"
    /\ result' = Num(issue_count)

\* An exception leaves crawl from the given line
Propagate(exc, line) ==
    /\ pc' = "raised"
    /\ result' = [k |-> "raise", exc |-> exc, line |-> line]

\* FetchFault with the request sent again after the fault
FetchFault_Retry ==
    /\ pc = "fetch"
    /\ exchanges' = Append(exchanges, [params |-> Params, response |-> Fault])
    /\ faultAt' = [k |-> "fault", request |-> Len(exchanges) + 1,
                   calls |-> Len(indexCalls)]
    /\ pc' = "fetch"
    /\ UNCHANGED <<api_version, resultSet, start_at, next_page_token,
                   issue_count, data, idx, result, indexCalls, pageLog, input,
                   output>>

\* Lines 318-332: session.get, raise_for_status or response.json raises
FetchFault ==
    /\ pc = "fetch"
    /\ exchanges' = Append(exchanges, [params |-> Params, response |-> Fault])
    /\ faultAt' = [k |-> "fault", request |-> Len(exchanges) + 1,
                   calls |-> Len(indexCalls)]
    /\ Return
    /\ UNCHANGED <<api_version, resultSet, start_at, next_page_token,
                   issue_count, data, idx, indexCalls, pageLog, input, output>>

\* Lines 318-334: the body parses to a JSON value that is not an object, and
\* data.get raises outside the try
FetchNotObject ==
    /\ pc = "fetch"
    /\ exchanges' = Append(exchanges, [params |-> Params, response |-> Null])
    /\ data' = Null
    /\ pageLog' = <<>>
    /\ Propagate("AttributeError", 334)
    /\ UNCHANGED <<api_version, resultSet, start_at, next_page_token,
                   issue_count, idx, indexCalls, faultAt, input, output>>

\* FetchPage without the test of lines 335-337: an empty page goes through
\* the (empty) loop to the pagination check
FetchPage_EmptyPagePaginates ==
    /\ pc = "fetch"
    /\ \E response \in Responses(Params) :
         /\ exchanges' = Append(exchanges, [params |-> Params, response |-> response])
         /\ data' = response
         /\ pageLog' = <<>>
         /\ result' = result
         /\ IF ~Truthy(Get(response, "issues", List(<<>>)))
            THEN /\ pc' = "paginate"
                 /\ idx' = 0
            ELSE /\ pc' = "process"
                 /\ idx' = 1
    /\ UNCHANGED <<api_version, resultSet, start_at, next_page_token,
                   issue_count, indexCalls, faultAt, input, output>>

\* Lines 318-339: a page arrives
FetchPage ==
    /\ pc = "fetch"
    /\ \E response \in Responses(Params) :
         /\ exchanges' = Append(exchanges, [params |-> Params, response |-> response])
         /\ data' = response
         /\ pageLog' = <<>>
         /\ IF ~Truthy(Get(response, "issues", List(<<>>)))
            THEN /\ Return
                 /\ idx' = idx
            ELSE /\ pc' = "process"
                 /\ idx' = 1
                 /\ result' = result
    /\ UNCHANGED <<api_version, resultSet, start_at, next_page_token,
                   issue_count, indexCalls, faultAt, input, output>>

\* NextIssue with the loop left after its first issue
NextIssue_EndsLoop ==
    /\ result' = result
    /\ idx' = idx
    /\ pc' = "paginate"

\* Lines 342 and 349: the for loop moves to the next issue or ends
NextIssue ==
    /\ result' = result
    /\ IF idx < Len(Issues.items)
       THEN /\ idx' = idx + 1
            /\ pc' = "process"
       ELSE /\ idx' = idx
            /\ pc' = "paginate"

\* ProcessIndexed with the page abandoned after a submission that failed
ProcessIndexed_BreakOnReject ==
    /\ pc = "process"
    /\ LET issue == Issues.items[idx]
           document == BuildDocument(issue)
       IN /\ document.k = "ret"
          /\ \E outcome \in IndexOutcomes :
               /\ indexCalls' = Append(indexCalls,
                                       [id |-> document.v.id, outcome |-> outcome])
               /\ issue_count' = IF index_document(outcome)
                                 THEN issue_count + 1 ELSE issue_count
               /\ pageLog' = Append(pageLog, outcome)
               /\ IF index_document(outcome)
                  THEN NextIssue
                  ELSE /\ result' = result
                       /\ idx' = idx
                       /\ pc' = "paginate"
    /\ UNCHANGED <<api_version, resultSet, start_at, next_page_token, data,
                   exchanges, faultAt, input, output>>

\* ProcessIndexed with a submission that failed made again
ProcessIndexed_RetryOnFailure ==
    /\ pc = "process"
    /\ LET issue == Issues.items[idx]
           document == BuildDocument(issue)
       IN /\ document.k = "ret"
          /\ \E outcome \in IndexOutcomes :
               /\ indexCalls' = Append(indexCalls,
                                       [id |-> document.v.id, outcome |-> outcome])
               /\ issue_count' = IF index_document(outcome)
                                 THEN issue_count + 1 ELSE issue_count
               /\ pageLog' = Append(pageLog, outcome)
               /\ IF index_document(outcome)
                  THEN NextIssue
                  ELSE /\ result' = result
                       /\ idx' = idx
                       /\ pc' = "process"
    /\ UNCHANGED <<api_version, resultSet, start_at, next_page_token, data,
                   exchanges, faultAt, input, output>>

\* Lines 342-348 with 458-463: one issue whose document is built and submitted
ProcessIndexed ==
    /\ pc = "process"
    /\ LET issue == Issues.items[idx]
           document == BuildDocument(issue)
       IN /\ document.k = "ret"
          /\ \E outcome \in IndexOutcomes :
               /\ indexCalls' = Append(indexCalls,
                                       [id |-> document.v.id, outcome |-> outcome])
               /\ issue_count' = IF index_document(outcome)
                                 THEN issue_count + 1 ELSE issue_count
               /\ pageLog' = Append(pageLog, outcome)
    /\ NextIssue
    /\ UNCHANGED <<api_version, resultSet, start_at, next_page_token, data,
                   exchanges, faultAt, input, output>>

\* Lines 342-348 with 380-456: one issue whose mapping raises; the handler
\* reads issue.get('key', 'unknown') for the log line
ProcessFaulted ==
    /\ pc = "process"
    /\ LET issue == Issues.items[idx] IN
         /\ BuildDocument(issue).k = "raise"
         /\ pageLog' = Append(pageLog, "fault")
         /\ IF issue.k = "dict"
            THEN NextIssue
            ELSE /\ Propagate("AttributeError", 347)
                 /\ idx' = idx
    /\ UNCHANGED <<api_version, resultSet, start_at, next_page_token,
                   issue_count, data, exchanges, indexCalls, faultAt, input,
                   output>>

\* PaginateOffset with the end test "start_at > total"
PaginateOffset_StrictlyGreater ==
    LET total == Get(data, "total", Num(0)) IN
    /\ start_at' = start_at + Len(Issues.items)
    /\ next_page_token' = next_page_token
    /\ IF total.k # "num"
       THEN Propagate("TypeError", 354)
       ELSE IF start_at' > total.n
       THEN Return
       ELSE /\ pc' = "fetch"
            /\ result' = result

\* PaginateOffset with the offset advanced by the page size asked for
PaginateOffset_AdvanceByPageSize ==
    LET total == Get(data, "total", Num(0)) IN
    /\ start_at' = start_at + PageSize
    /\ next_page_token' = next_page_token
    /\ IF total.k # "num"
       THEN Propagate("TypeError", 354)
       ELSE IF start_at' >= total.n
       THEN Return
       ELSE /\ pc' = "fetch"
            /\ result' = result

\* Lines 351-356: the pagination check of API version 2
PaginateOffset ==
    LET total == Get(data, "total", Num(0)) IN
    /\ start_at' = start_at + Len(Issues.items)
    /\ next_page_token' = next_page_token
    /\ IF total.k # "num"
       THEN Propagate("TypeError", 354)
       ELSE IF start_at' >= total.n
       THEN Return
       ELSE /\ pc' = "fetch"
            /\ result' = result

\* PaginateToken with the continuation token looked at before isLast
PaginateToken_TokenFirst ==
    LET is_last == Get(data, "isLast", Bool(TRUE)) IN
    /\ start_at' = start_at
    /\ IF Truthy(Get(data, "nextPageToken", Null))
       THEN /\ next_page_token' = Get(data, "nextPageToken", Null)
            /\ pc' = "fetch"
            /\ result' = result
       ELSE /\ next_page_token' = next_page_token
            /\ Return

\* PaginateToken with a missing token raised as an error
PaginateToken_MissingTokenRaises ==
    LET is_last == Get(data, "isLast", Bool(TRUE)) IN
    /\ start_at' = start_at
    /\ IF Truthy(is_last)
       THEN /\ next_page_token' = next_page_token
            /\ Return
       ELSE /\ next_page_token' = Get(data, "nextPageToken", Null)
            /\ IF ~Truthy(next_page_token')
               THEN Propagate("KeyError", 362)
               ELSE /\ pc' = "fetch"
                    /\ result' = result

\* Lines 357-365: the pagination check of API version 3
PaginateToken ==
    LET is_last == Get(data, "isLast", Bool(TRUE)) IN
    /\ start_at' = start_at
    /\ IF Truthy(is_last)
       THEN /\ next_page_token' = next_page_token
            /\ Return
       ELSE /\ next_page_token' = Get(data, "nextPageToken", Null)
            /\ IF ~Truthy(next_page_token')
               THEN Return
               ELSE /\ pc' = "fetch"
                    /\ result' = result

\* Paginate with the mode taken from the members of the response
Paginate_ByResponseShape ==
    /\ pc = "paginate"
    /\ IF "isLast" \in DOMAIN data.m THEN PaginateToken
       ELSE IF "total" \in DOMAIN data.m THEN PaginateOffset
       ELSE IF api_version = 2 THEN PaginateOffset ELSE PaginateToken
    /\ UNCHANGED <<api_version, resultSet, issue_count, data, idx, exchanges,
                   indexCalls, pageLog, faultAt, input, output>>

\* Lines 350-365: the pagination check after the last issue of a page
Paginate ==
    /\ pc = "paginate"
    /\ IF api_version = 2 THEN PaginateOffset ELSE PaginateToken
    /\ UNCHANGED <<api_version, resultSet, issue_count, data, idx, exchanges,
                   indexCalls, pageLog, faultAt, input, output>>

Next ==
    \/ FetchFault
    \/ FetchNotObject
    \/ FetchPage
    \/ ProcessIndexed
    \/ ProcessFaulted
    \/ Paginate

Spec == CrawlInit /\ [][Next]_vars

\* ------------------------------------------------------------------------
\* Single calls of the decoder and of the mapping, on bounded inputs
\* ------------------------------------------------------------------------
\* Values the source may put where a str is expected
Texts == {Str(<<>>), Str(<<"x">>), Str(<<" ">>), Str(<<"y", " ">>), Str(<<"\n", "x">>)}

TextNodes ==
    {DictOf([type |-> Str(K_text), text |-> t]) :
       t \in {Absent, Null, Num(7)} \cup Texts}

InlineCards ==
    {DictOf([type |-> Str(K_inlineCard),
             attrs |-> a]) :
       a \in {Absent, Null, EmptyDict, Dict([url |-> Str(<<"u">>)]),
              Dict([url |-> Null])}}

\* Values without children
Leaves ==
    {Null, Num(7), Bool(TRUE), EmptyDict, List(<<>>),
     Dict([type |-> Str(<<"r", "u", "l", "e">>)])}
      \cup Texts \cup TextNodes \cup InlineCards

\* The type members of the nodes with children; "panel" is a kind the
\* decoder does not know
ContainerTypes ==
    {Absent, Null,
     Str(K_paragraph),
     Str(K_heading),
     Str(K_bulletList),
     Str(K_orderedList),
     Str(K_listItem),
     Str(K_codeBlock),
     Str(K_doc),
     Str(<<"p", "a", "n", "e", "l">>)}

\* The children of the nodes with two children
Pairs ==
    LET small == {Str(<<"x">>),
                  DictOf([type |-> Str(K_text), text |-> Str(<<"x">>)]),
                  DictOf([type |-> Str(K_text), text |-> Str(<<"y", " ">>)]),
                  DictOf([type |-> Str(K_text), text |-> Null])}
    IN {<<a, b>> : a \in small, b \in small}

\* The values of nesting depth up to d
RECURSIVE Nodes(_)
Nodes(d) ==
    IF d = 0 THEN Leaves
    ELSE LET below == Nodes(d - 1)
             children == {<<c>> : c \in below} \cup Pairs
         IN Leaves
              \cup {List(c) : c \in children}
              \cup {DictOf([type |-> t, content |-> c]) :
                      t \in ContainerTypes,
                      c \in {Absent, Null, Str(<<"x">>)} \cup {List(x) : x \in children}}

DecodeInputs == Nodes(MaxDepth)

\* The description and comment bodies of the issues mapped
Bodies ==
    {Absent, Null, Str(<<"x">>), Str(<<" ">>),
     DictOf([type |-> Str(K_text), text |-> Null]),
     DictOf([type |-> Str(K_paragraph),
             content |-> List(<<Str(<<"x">>)>>)]),
     DictOf([type |-> Str(K_paragraph),
             content |-> Null])}

CommentInputs ==
    {Null} \cup
    {DictOf([author |-> a, body |-> b]) :
       a \in {Absent, Null, EmptyDict, Dict([displayName |-> Str(<<"A">>)])},
       b \in Bodies}

CommentFields ==
    {Absent, Null, EmptyDict, Dict([comments |-> Null])}
      \cup {Dict([comments |-> List(<<c>>)]) : c \in CommentInputs}
      \cup {Dict([comments |-> List(<<c, d>>)]) :
              c \in {DictOf([author |-> Dict([displayName |-> Str(<<"A">>)]), body |-> b]) :
                       b \in {Str(<<"x">>), Str(<<" ">>), Null}},
              d \in {DictOf([author |-> Absent, body |-> b]) :
                       b \in {Str(<<"y", " ">>), Str(<<>>)}}}

FieldsInputs ==
    {Absent, Null} \cup
    {DictOf([summary |-> s, status |-> st, description |-> d, comment |-> c]) :
       s \in {Absent, Null, Str(<<"s">>)},
       st \in {Absent, Null, EmptyDict, Str(<<"x">>), Dict([name |-> Str(<<"O", "K">>)])},
       d \in Bodies,
       c \in CommentFields}

IssueInputs ==
    {Null, Str(<<"x">>)} \cup
    {DictOf([key |-> key, fields |-> f]) :
       key \in {Absent, KeyOf(1)}, f \in FieldsInputs}

CallInit ==
    /\ \/ pc = "decode" /\ input \in DecodeInputs
       \/ pc = "map" /\ input \in IssueInputs
    /\ output = None
    /\ api_version = 3
    /\ resultSet = <<>>
    /\ start_at = 0
    /\ next_page_token = Null
    /\ issue_count = 0
    /\ data = None
    /\ idx = 0
    /\ result = None
    /\ exchanges = <<>>
    /\ indexCalls = <<>>
    /\ pageLog = <<>>
    /\ faultAt = None

\* One call of extract_adf_text
Decode ==
    /\ pc = "decode"
    /\ output' = extract_adf_text(input)
    /\ pc' = "decoded"
    /\ UNCHANGED <<api_version, resultSet, start_at, next_page_token,
                   issue_count, data, idx, result, exchanges, indexCalls,
                   pageLog, faultAt, input>>

\* One call of _process_issue up to the document it submits
Map ==
    /\ pc = "map"
    /\ output' = BuildDocument(input)
    /\ pc' = "mapped"
    /\ UNCHANGED <<api_version, resultSet, start_at, next_page_token,
                   issue_count, data, idx, result, exchanges, indexCalls,
                   pageLog, faultAt, input>>

CallNext ==
    \/ Decode
    \/ Map

SpecCall == CallInit /\ [][CallNext]_vars

\* ------------------------------------------------------------------------
\* Properties of the crawl
\* ------------------------------------------------------------------------
\* The number of index calls of a log that were accepted or already present
Accepted(log) == Cardinality({i \in 1..Len(log) : log[i].outcome \in {"200", "409"}})

\* The outcomes of an index call that failed: a rejection or a transport fault
Failed == {"500", "exception"}

\* Every page so far is the one the static, well-behaved source sends
WellBehaved ==
    \A i \in 1..Len(exchanges) :
      /\ exchanges[i].response.k = "dict"
      /\ exchanges[i].response = StaticResponse(exchanges[i].params)

\* C1: once a page fetch has faulted, crawl has returned (the fault did not
\* propagate), its result is the number of issues indexed before the fault,
\* and no page request and no index call was made after the faulted request.
C1_FetchFaultEndsCrawl ==
    faultAt.k = "fault" =>
      /\ pc = "returned"
      /\ result = Num(Accepted(indexCalls))
      /\ Len(exchanges) = faultAt.request
      /\ Len(indexCalls) = faultAt.calls

\* C1 witness: the third page request faulted after two issues were indexed
C1_Witness ==
    /\ faultAt.k = "fault"
    /\ faultAt.request = 3
    /\ result = Num(2)

\* C2: when crawl returns after a run against the static, well-behaved
\* source without a page-fetch fault, the documents passed to the indexer
\* are those of the issues of the result set, each exactly once.
C2_EveryIssueSubmittedOnce ==
    (pc = "returned" /\ faultAt.k = "none" /\ WellBehaved) =>
      /\ Len(indexCalls) = N
      /\ \A i \in 1..N : \E j \in 1..N : indexCalls[j].id = KeyOf(i)

\* Every issue of the result set is a complete issue
AllGood == \A i \in 1..N : resultSet[i] = IssueOf(i, "good")

\* The statement of C2 for result sets of complete issues, which holds
C2_CompleteIssuesSubmittedOnce ==
    (pc = "returned" /\ faultAt.k = "none" /\ WellBehaved /\ AllGood) =>
      [j \in 1..Len(indexCalls) |-> indexCalls[j].id] = [i \in 1..N |-> KeyOf(i)]

\* C3: the count kept by crawl is the number of index calls so far that
\* were accepted or already present, and that is the value crawl returns.
C3_CountIsAcceptedCalls ==
    /\ issue_count = Accepted(indexCalls)
    /\ pc = "returned" => result = Num(Accepted(indexCalls))

\* C3 witness: crawl returned 2 after an accepted, an already-present and
\* two failed index calls
C3_Witness ==
    /\ pc = "returned"
    /\ result = Num(2)
    /\ Len(indexCalls) = 3
    /\ \E i, j, l \in 1..3 :
         /\ indexCalls[i].outcome = "200"
         /\ indexCalls[j].outcome = "409"
         /\ indexCalls[l].outcome \in Failed

\* C4: a fault raised while one issue is mapped or submitted never leaves
\* crawl, and once a page is done every issue of it has been processed.
C4_IssueFaultIsolated ==
    /\ ~(pc = "raised" /\ result.line = 347)
    /\ pc = "paginate" => Len(pageLog) = Len(Issues.items)

\* The position of the page response being processed in the page, if any,
\* whose submission failed
FailedIn(log) == {i \in 1..Len(log) : log[i] \in Failed}

\* The issues of the page handled so far are exactly those the loop passed:
\* each was mapped, and submitted unless its mapping raised
HandledInOrder ==
    /\ Len(pageLog) <= Len(Issues.items)
    /\ \A j \in 1..Len(pageLog) :
         (pageLog[j] = "fault") <=> (BuildDocument(Issues.items[j]).k = "raise")

\* The cursor after the pagination check of a page, from the cursor before
\* it and the page alone
CursorAdvanced ==
    IF api_version = 2
    THEN /\ start_at' = start_at + Len(Issues.items)
         /\ next_page_token' = next_page_token
    ELSE /\ start_at' = start_at
         /\ next_page_token' =
              IF Truthy(Get(data, "isLast", Bool(TRUE))) THEN next_page_token
              ELSE Get(data, "nextPageToken", Null)

\* C5: after a submission of issue i of a page failed, the loop goes on with
\* issue i+1 (the count and the cursor untouched), the page is processed to
\* its last issue, and the pagination check advances the cursor by the page
\* alone, as it does when every submission is accepted.
C5_RejectionDoesNotStopPage ==
    /\ [][(pc = "process" /\ Len(pageLog') = Len(pageLog) + 1
             /\ pageLog'[Len(pageLog')] \in Failed) =>
            /\ issue_count' = issue_count
            /\ start_at' = start_at
            /\ next_page_token' = next_page_token
            /\ IF idx < Len(Issues.items)
               THEN pc' = "process" /\ idx' = idx + 1
               ELSE pc' = "paginate"]_vars
    /\ [](FailedIn(pageLog) # {} =>
            /\ HandledInOrder
            /\ pc = "process" => idx = Len(pageLog) + 1
            /\ pc = "paginate" => Len(pageLog) = Len(Issues.items))
    /\ [][(pc = "paginate" /\ FailedIn(pageLog) # {}) => CursorAdvanced]_vars

\* C5 witness: the first submission of a page of two failed, the second
\* issue was submitted all the same, and the next page is being requested
C5_Witness ==
    /\ pc = "fetch"
    /\ Len(pageLog) = 2
    /\ pageLog[1] = "500"
    /\ pageLog[2] = "200"
    /\ Len(exchanges) = 1

Ceil(a, b) == (a + b - 1) \div b

\* No page fetch faulted and every page so far reports the total t
SameTotal(t) ==
    /\ faultAt.k = "none"
    /\ \A i \in 1..Len(exchanges) :
         /\ exchanges[i].response.k = "dict"
         /\ "total" \in DOMAIN exchanges[i].response.m
         /\ exchanges[i].response.m.total.k = "num"
         /\ exchanges[i].response.m.total.n = t

\* Every page so far holds as many issues as the request and the total t
\* allow: min(pageSize, t - offset)
FullPages(t) ==
    \A i \in 1..Len(exchanges) :
      Len(exchanges[i].response.m.issues.items)
        = Min(PageSize, Max(0, t - CursorOf(exchanges[i].params)))

\* C6 as stated: in Mode A, with the same total t on every page and no
\* page-fetch fault, crawl sends at most ceil(t / pageSize) page requests.
C6_AtMostCeilFetches ==
    \A t \in 0..MaxTotal :
      (api_version = 2 /\ SameTotal(t)) => Len(exchanges) <= Ceil(t, PageSize)

\* C6 amended: in Mode A, with the same total t on every page, every page
\* full and no page-fetch fault, crawl sends at most
\* max(1, ceil(t / pageSize)) page requests.
C6_AtMostCeilFetchesOfFullPages ==
    \A t \in 0..MaxTotal :
      (api_version = 2 /\ SameTotal(t) /\ FullPages(t)) =>
        Len(exchanges) <= Max(1, Ceil(t, PageSize))

\* C6 witness: crawl returned after the two full pages of a total of three
C6_Witness ==
    /\ api_version = 2
    /\ pc = "returned"
    /\ SameTotal(3)
    /\ FullPages(3)
    /\ Len(exchanges) = Ceil(3, PageSize)
    /\ Len(exchanges) >= 2

\* The page being processed carries the isLast flag b
IsLastIs(b) ==
    /\ data.k = "dict"
    /\ "isLast" \in DOMAIN data.m
    /\ data.m.isLast = Bool(b)

\* The page being processed is the answer to the last page request sent
LastRequested == exchanges[Len(exchanges)].response = data

\* Issues of the result set remain after the page being processed
MoreRemain ==
    CursorOf(exchanges[Len(exchanges)].params) + Len(Issues.items) < N

\* C7: in Mode B, while the page at hand has isLast = true, crawl is never
\* about to request a page and no request was sent after that of this page;
\* when crawl returns, every issue of the page has been processed.
C7_IsLastEndsCrawl ==
    (api_version = 3 /\ IsLastIs(TRUE)) =>
      /\ pc # "fetch"
      /\ LastRequested
      /\ pc = "returned" =>
           /\ Len(pageLog) = Len(Issues.items)
           /\ result = Num(issue_count)

\* C7 witness: crawl returned after a page with isLast = true that carried a
\* continuation token, with issues of the result set left unread
C7_Witness ==
    /\ api_version = 3
    /\ pc = "returned"
    /\ IsLastIs(TRUE)
    /\ Truthy(Get(data, "nextPageToken", Null))
    /\ Len(pageLog) >= 1
    /\ MoreRemain

\* C8: in Mode B, while the page at hand has isLast = false and no
\* continuation token, crawl is never about to request a page, no request
\* was sent after that of this page, no exception leaves crawl from the
\* pagination check, and when crawl returns every issue of the page has been
\* processed and the result is the count of the issues indexed.
C8_MissingTokenEndsCrawl ==
    (api_version = 3 /\ IsLastIs(FALSE) /\ ~Truthy(Get(data, "nextPageToken", Null))) =>
      /\ pc # "fetch"
      /\ LastRequested
      /\ pc = "raised" => result.line = 347
      /\ pc = "returned" =>
           /\ Len(pageLog) = Len(Issues.items)
           /\ result = Num(Accepted(indexCalls))

\* C8 witness: crawl returned 1 after a page of one issue with
\* isLast = false and no token, with issues of the result set left unread
C8_Witness ==
    /\ api_version = 3
    /\ pc = "returned"
    /\ IsLastIs(FALSE)
    /\ "nextPageToken" \notin DOMAIN data.m
    /\ Len(pageLog) = 1
    /\ result = Num(1)
    /\ MoreRemain

\* ------------------------------------------------------------------------
\* Properties of the page requests
\* ------------------------------------------------------------------------
\* The params of the i-th page request and the response to it
Req(i) == exchanges[i].params

Resp(i) == exchanges[i].response

Sent == Len(exchanges)

\* The response is a page (a JSON object), and the number of its issues
IsPage(r) == r.k = "dict"

Count(r) == IF IsPage(r) THEN Len(Get(r, "issues", List(<<>>)).items) ELSE 0

\* The offset and the token a request carries
OffsetOf(i) == Req(i).m.startAt.n

TokenOf(i) == Get(Req(i), "nextPageToken", Absent)

\* The page that answered request i ends a Mode A crawl: it is empty, or the
\* offset advanced past it reaches the total of the response (0 when the
\* response has no total member)
Stops(i) ==
    LET total == Get(Resp(i), "total", Num(0)) IN
    \/ Count(Resp(i)) = 0
    \/ total.k = "num" /\ OffsetOf(i) + Count(Resp(i)) >= total.n

\* C15: in Mode A the first request carries offset 0 and every later request
\* the offset of the request before plus the number of issues of the page
\* before (so offsets strictly increase); crawl goes on to another request
\* only after a page that is not empty and leaves the advanced offset below
\* its total, and returns after a page only when the page is empty or the
\* advanced offset has reached its total.
C15_OffsetPagination ==
    api_version = 2 =>
      /\ \A i \in 1..Sent :
           /\ "startAt" \in DOMAIN Req(i).m
           /\ (i = 1) => OffsetOf(i) = 0
           /\ (i > 1) =>
                /\ IsPage(Resp(i - 1))
                /\ OffsetOf(i) = OffsetOf(i - 1) + Count(Resp(i - 1))
                /\ OffsetOf(i) > OffsetOf(i - 1)
                /\ ~Stops(i - 1)
      /\ (pc = "fetch" /\ Sent >= 1) =>
           /\ ~Stops(Sent)
           /\ start_at = OffsetOf(Sent) + Count(Resp(Sent))
      /\ (pc = "returned" /\ Sent >= 1 /\ IsPage(Resp(Sent))) => Stops(Sent)

\* A short page of one issue at offset 0, then a page of two at offset 1
\* that reaches the total of 3
C15_Witness ==
    /\ api_version = 2
    /\ pc = "returned"
    /\ Sent = 2
    /\ OffsetOf(1) = 0
    /\ Count(Resp(1)) = 1
    /\ OffsetOf(2) = 1
    /\ IsPage(Resp(2))
    /\ Count(Resp(2)) = 2
    /\ Get(Resp(2), "total", Null) = Num(3)
    /\ start_at = 3

\* The page that answered request i has been dealt with: a later request was
\* sent, or crawl is about to send one, or crawl has returned
Passed(i) == i < Sent \/ pc \in {"fetch", "returned"}

\* After the page of request i, the next request carries the token of that
\* page (it was sent with it, or crawl is about to send it)
Followed(i) ==
    IF i < Sent
    THEN TokenOf(i + 1) = Get(Resp(i), "nextPageToken", Null)
    ELSE pc = "fetch" /\ next_page_token = Get(Resp(i), "nextPageToken", Null)

\* C16 as stated: in Mode B the first request carries no token, and after
\* every page whose isLast is not true and which carries a continuation
\* token, crawl fetches another page with exactly that token.
C16_TokenAlwaysFollowed ==
    api_version = 3 =>
      /\ Sent >= 1 => "nextPageToken" \notin DOMAIN Req(1).m
      /\ \A i \in 1..Sent :
           (/\ IsPage(Resp(i))
            /\ Get(Resp(i), "isLast", Absent) # Bool(TRUE)
            /\ Truthy(Get(Resp(i), "nextPageToken", Null))
            /\ Passed(i)) => Followed(i)

\* C16, amended: in Mode B the first request carries no token, and after the
\* pagination check of every page that holds at least one issue, whose
\* isLast is false and which carries a non-empty continuation token, crawl
\* requests another page with exactly that token; no request carries a
\* token that the page before it did not carry.
C16_TokenFollowedAfterNonEmptyPage ==
    api_version = 3 =>
      /\ Sent >= 1 => "nextPageToken" \notin DOMAIN Req(1).m
      /\ \A i \in 1..Sent :
           /\ (/\ IsPage(Resp(i))
               /\ Count(Resp(i)) > 0
               /\ Get(Resp(i), "isLast", Absent) = Bool(FALSE)
               /\ Truthy(Get(Resp(i), "nextPageToken", Null))
               /\ Passed(i)) => Followed(i)
           /\ (i > 1) => /\ IsPage(Resp(i - 1))
                         /\ Truthy(TokenOf(i))
                         /\ TokenOf(i) = Get(Resp(i - 1), "nextPageToken", Null)

\* A second request sent with the token of the first page
C16_Witness ==
    /\ api_version = 3
    /\ Sent = 2
    /\ Count(Resp(1)) = 1
    /\ Get(Resp(1), "isLast", Absent) = Bool(FALSE)
    /\ Get(Resp(1), "nextPageToken", Null) = Tok(1)
    /\ TokenOf(2) = Tok(1)

\* The cursor the last request was sent with
CursorSent ==
    IF api_version = 2
    THEN start_at = OffsetOf(Sent) /\ next_page_token = Null
    ELSE start_at = 0 /\ next_page_token = Get(Req(Sent), "nextPageToken", Null)

\* The position in the result set of the issue with the given key
KeyIndex(id) == CHOOSE i \in 1..N : KeyOf(i) = id

\* The index calls made for the page at hand, in the order made
PageCalls ==
    LET made == Cardinality({j \in 1..Len(pageLog) : pageLog[j] # "fault"}) IN
    SubSeq(indexCalls, Len(indexCalls) - made + 1, Len(indexCalls))

\* The issues of the page at hand handled so far whose mapping gave a
\* document, in page order
PageMapped ==
    SelectSeq(SubSeq(Issues.items, 1, Len(pageLog)),
              LAMBDA issue : BuildDocument(issue).k = "ret")

\* C17: crawl is sequential. While a page is being processed its issues are
\* handled one at a time in page order, the index calls of the page are for
\* its issues in that order, and the cursor is still the one the request of
\* the page was sent with; when crawl is about to send the next request,
\* every issue of the page before has been handled; and over the whole run
\* the index calls follow the order of the source.
C17_Sequential ==
    /\ (pc = "process") =>
         /\ Len(pageLog) = idx - 1
         /\ idx <= Count(data)
         /\ LastRequested
         /\ CursorSent
    /\ (pc \in {"process", "paginate"}) =>
         /\ HandledInOrder
         /\ Len(PageCalls) = Len(PageMapped)
         /\ \A j \in 1..Len(PageCalls) :
              PageCalls[j].id = Get(PageMapped[j], "key", UnknownKey)
    /\ (pc = "paginate") => Len(pageLog) = Count(data) /\ CursorSent
    /\ (pc = "fetch" /\ Sent >= 1) =>
         /\ LastRequested
         /\ Len(pageLog) = Count(data)
    /\ \A a, b \in 1..Len(indexCalls) :
         a < b => KeyIndex(indexCalls[a].id) < KeyIndex(indexCalls[b].id)

\* The second issue of the second page at hand, the three issues before it
\* submitted in order
C17_Witness ==
    /\ pc = "process"
    /\ Sent = 2
    /\ idx = 2
    /\ Count(data) = 2
    /\ Len(indexCalls) = 2
    /\ indexCalls[1].id = KeyOf(1)
    /\ indexCalls[2].id = KeyOf(2)

\* The number of issues in the pages received so far
RECURSIVE Delivered(_)
Delivered(i) ==
    IF i = 0 THEN 0
    ELSE Delivered(i - 1) + (IF IsPage(Resp(i)) THEN Count(Resp(i)) ELSE 0)

\* C18: crawl does not retry. No issue of a page response is submitted
\* twice whatever the outcome of its submission, there are never more index
\* calls than issues received, and a page request that faulted is the last
\* request sent: no two requests carry the same cursor.
C18_NoRetries ==
    /\ \A a, b \in 1..Len(indexCalls) :
         a # b => indexCalls[a].id # indexCalls[b].id
    /\ Len(indexCalls) <= Delivered(Sent)
    /\ IsPage(data) => Len(pageLog) <= Count(data)
    /\ \A i \in 1..Sent :
         (Resp(i) = Fault) => (i = Sent /\ pc = "returned")
    /\ \A i, j \in 1..Sent : i # j => Req(i) # Req(j)

\* A submission that failed, followed by the submission of the next issue
C18_Witness ==
    /\ pc = "returned"
    /\ Len(indexCalls) = 2
    /\ indexCalls[1].outcome \in Failed
    /\ indexCalls[1].id = KeyOf(1)
    /\ indexCalls[2].id = KeyOf(2)
    /\ Delivered(Sent) = 2

\* A faulted request left as the last one
C18_WitnessFault ==
    /\ pc = "returned"
    /\ Sent = 2
    /\ Resp(2) = Fault
    /\ Len(indexCalls) = 1

\* C19: the mode is fixed for the run. In Mode A every request carries an
\* offset and no token and the token stays None; in Mode B no request
\* carries an offset and the offset stays 0; this also holds after a
\* response that carries the members of the other mode.
C19_ModeFixed ==
    /\ api_version = 2 =>
         /\ next_page_token = Null
         /\ \A i \in 1..Sent :
              /\ "startAt" \in DOMAIN Req(i).m
              /\ "nextPageToken" \notin DOMAIN Req(i).m
         /\ (pc = "returned" /\ Sent >= 1 /\ IsPage(Resp(Sent))) => Stops(Sent)
    /\ api_version = 3 =>
         /\ start_at = 0
         /\ \A i \in 1..Sent : "startAt" \notin DOMAIN Req(i).m
         /\ (pc = "returned" /\ Sent >= 1 /\ IsPage(Resp(Sent)) /\ Count(Resp(Sent)) > 0) =>
              \/ Truthy(Get(Resp(Sent), "isLast", Bool(TRUE)))
              \/ ~Truthy(Get(Resp(Sent), "nextPageToken", Null))

\* A Mode A request with an offset sent after a page that said isLast and
\* carried a token
C19_Witness ==
    /\ api_version = 2
    /\ Sent = 2
    /\ "isLast" \in DOMAIN Resp(1).m
    /\ "nextPageToken" \in DOMAIN Resp(1).m
    /\ OffsetOf(2) = 2
    /\ next_page_token = Null

\* A Mode B request with a token sent after a page that carried a total of 0
C19_WitnessToken ==
    /\ api_version = 3
    /\ Sent = 2
    /\ "total" \in DOMAIN Resp(1).m
    /\ TokenOf(2) = Tok(2)
    /\ start_at = 0

\* C20: in either mode an empty page ends crawl at once, before its
\* pagination members are read: crawl has returned the count so far, no
\* issue of the page was handled, the cursor is the one the request was sent
\* with, and the request of the page is the last one sent.
C20_EmptyPageEndsCrawl ==
    \A i \in 1..Sent :
      (IsPage(Resp(i)) /\ Count(Resp(i)) = 0) =>
        /\ i = Sent
        /\ pc = "returned"
        /\ result = Num(issue_count)
        /\ issue_count = Accepted(indexCalls)
        /\ Len(indexCalls) <= Delivered(Sent)
        /\ pageLog = <<>>
        /\ CursorSent

\* An empty second page in Mode B with isLast = false and a token
C20_Witness ==
    /\ api_version = 3
    /\ pc = "returned"
    /\ Sent = 2
    /\ IsPage(Resp(2))
    /\ Count(Resp(2)) = 0
    /\ Get(Resp(2), "isLast", Absent) = Bool(FALSE)
    /\ Truthy(Get(Resp(2), "nextPageToken", Null))
    /\ result = Num(1)

\* An empty page in Mode A whose total is null
C20_WitnessNullTotal ==
    /\ api_version = 2
    /\ pc = "returned"
    /\ Sent = 2
    /\ IsPage(Resp(2))
    /\ Count(Resp(2)) = 0
    /\ Get(Resp(2), "total", Absent) = Null
    /\ start_at = OffsetOf(2)

\* ------------------------------------------------------------------------
\* Properties of the decoder and of the mapping
\* ------------------------------------------------------------------------
\* C9: extract_adf_text returns a str for every input and never raises.
C9_DecodeTotal ==
    pc = "decoded" => (output.k = "ret" /\ output.v.k = "str")

\* The fields of an issue, and the issue without its status member
FieldsOf(issue) == Get(issue, "fields", EmptyDict)

WithoutStatus(issue) ==
    Dict([x \in DOMAIN issue.m |->
            IF x = "fields"
            THEN Dict([y \in DOMAIN issue.m.fields.m \ {"status"} |-> issue.m.fields.m[y]])
            ELSE issue.m[x]])

\* The status name the Status section is to show
StatusName(fields) ==
    LET status == Get(fields, "status", Null) IN
    IF status.k = "dict" /\ "name" \in DOMAIN status.m
    THEN Fmt(status.m.name)
    ELSE <<"U", "n", "k", "n", "o", "w", "n">>

\* C10: every issue that maps to a document when its status member is left
\* out, and whose status member is a status object, null or missing, maps to
\* a document whose Status section reads "Issue <title> is <status name>",
\* with "Unknown" for a status that is null or missing.
C10_StatusSection ==
    (/\ pc = "mapped"
     /\ input.k = "dict"
     /\ "fields" \in DOMAIN input.m
     /\ FieldsOf(input).k = "dict"
     /\ Get(FieldsOf(input), "status", Null).k \in {"null", "dict"}
     /\ BuildDocument(WithoutStatus(input)).k = "ret") =>
      /\ output.k = "ret"
      /\ output.v.sections[3].title = "Status"
      /\ output.v.sections[3].text =
           <<"I", "s", "s", "u", "e", " ">> \o Fmt(output.v.title)
             \o <<" ", "i", "s", " ">> \o StatusName(FieldsOf(input))

\* The description member of an issue's fields and its decoded text
DescriptionOf(issue) == Get(FieldsOf(issue), "description", Null)

DecodedDescription(issue) ==
    IF Truthy(DescriptionOf(issue))
    THEN extract_adf_text(DescriptionOf(issue)).v.s
    ELSE <<>>

\* C11: every document handed to the indexer has a Description section whose
\* text is not blank: it is the decoded description, or "Issue: <key>" when
\* the description is absent or decodes to empty or whitespace-only text; and
\* no section of the document has an empty text.
C11_DescriptionNeverBlank ==
    (pc = "mapped" /\ output.k = "ret") =>
      LET sections == output.v.sections
          text == sections[1].text
          decoded == DecodedDescription(input)
      IN /\ sections[1].title = "Description"
         /\ Strip(text) # <<>>
         /\ text = IF Strip(decoded) = <<>>
                   THEN <<"I", "s", "s", "u", "e", ":", " ">> \o Fmt(output.v.id)
                   ELSE decoded
         /\ \A i \in 1..Len(sections) : sections[i].text # <<>>

\* A whitespace-only description mapped to the placeholder
C11_Witness ==
    /\ pc = "mapped"
    /\ output.k = "ret"
    /\ DescriptionOf(input) = Str(<<" ">>)
    /\ output.v.id = KeyOf(1)
    /\ output.v.sections[1].text = <<"I", "s", "s", "u", "e", ":", " ">> \o KeyOf(1).s

\* The comments of an issue that maps to a document
CommentsOf(issue) ==
    Get(Get(FieldsOf(issue), "comment", EmptyDict), "comments", List(<<>>)).items

\* The decoded body of a comment is a text that is not blank
Survives(comment) ==
    LET body == extract_adf_text(Get(comment, "body", EmptyDict)) IN
    body.k = "ret" /\ body.v.k = "str" /\ Strip(body.v.s) # <<>>

\* "<author>: <decoded body, trimmed>"
Rendered(comment) ==
    Fmt(Get(Get(comment, "author", EmptyDict), "displayName",
            Str(<<"U", "n", "k", "n", "o", "w", "n">>)))
      \o <<":", " ">>
      \o Strip(extract_adf_text(Get(comment, "body", EmptyDict)).v.s)

\* C12: the Comments section of a mapped issue holds exactly the comments
\* whose decoded body is not blank, each rendered "<author>: <body, trimmed>",
\* in source order and separated by an empty line; it reads "No comments"
\* when none survives or the issue has none.
C12_CommentsSection ==
    (pc = "mapped" /\ output.k = "ret") =>
      LET kept == SelectSeq(CommentsOf(input), Survives)
          section == output.v.sections[2]
      IN /\ section.title = "Comments"
         /\ section.text =
              IF kept = <<>>
              THEN <<"N", "o", " ", "c", "o", "m", "m", "e", "n", "t", "s">>
              ELSE Join(<<"\n", "\n">>, [i \in 1..Len(kept) |-> Rendered(kept[i])])

\* Two surviving comments in source order, the second trimmed and by an
\* author without a display name
C12_Witness ==
    /\ pc = "mapped"
    /\ output.k = "ret"
    /\ Len(CommentsOf(input)) = 2
    /\ output.v.sections[2].text =
         <<"A", ":", " ", "x", "\n", "\n",
           "U", "n", "k", "n", "o", "w", "n", ":", " ", "y">>

\* A blank comment dropped next to one that is kept
C12_WitnessDropped ==
    /\ pc = "mapped"
    /\ output.k = "ret"
    /\ Len(CommentsOf(input)) = 2
    /\ output.v.sections[2].text =
         <<"U", "n", "k", "n", "o", "w", "n", ":", " ", "y">>

\* An inline link whose attrs is an object (or missing) with a text url or
\* none
IsInlineCard(node) ==
    /\ node.k = "dict"
    /\ IsStr(Get(node, "type", Null), K_inlineCard)
    /\ Get(node, "attrs", EmptyDict).k = "dict"
    /\ Get(Get(node, "attrs", EmptyDict), "url", Str(<<>>)).k = "str"

UrlOf(node) == Get(Get(node, "attrs", EmptyDict), "url", Str(<<>>)).s

\* C13: an inline link decodes to "[" + url + "] " when its attrs carry a
\* url, and to the empty text when they carry none.
C13_InlineCard ==
    (pc = "decoded" /\ IsInlineCard(input)) =>
      output = Ret(Str(IF UrlOf(input) # <<>>
                       THEN <<"[">> \o UrlOf(input) \o <<"]", " ">>
                       ELSE <<>>))

\* A bullet or ordered list whose content is a list (or missing) and whose
\* children all decode to a text
IsListNode(node) ==
    /\ node.k = "dict"
    /\ \/ IsStr(Get(node, "type", Null), K_bulletList)
       \/ IsStr(Get(node, "type", Null), K_orderedList)
    /\ Get(node, "content", List(<<>>)).k = "list"
    /\ LET children == Get(node, "content", List(<<>>)).items IN
       \A i \in 1..Len(children) :
         /\ extract_adf_text(children[i]).k = "ret"
         /\ extract_adf_text(children[i]).v.k = "str"

\* C14: a bullet or ordered list decodes to its children's decoded texts, in
\* order, each trimmed and prefixed with the bullet and a space, joined by
\* single line breaks and followed by two line breaks.
C14_ListDecoding ==
    (pc = "decoded" /\ IsListNode(input)) =>
      LET children == Get(input, "content", List(<<>>)).items
          lines == [i \in 1..Len(children) |->
                      <<"U+2022", " ">> \o Strip(extract_adf_text(children[i]).v.s)]
      IN output = Ret(Str(Join(<<"\n">>, lines) \o <<"\n", "\n">>))

\* The bullet list of the items "x" and "y " decoded
C14_Witness ==
    /\ pc = "decoded"
    /\ input = DictOf([type |-> Str(K_bulletList),
                       content |-> List(<<DictOf([type |-> Str(K_text), text |-> Str(<<"x">>)]),
                                          DictOf([type |-> Str(K_text), text |-> Str(<<"y", " ">>)])>>)])
    /\ output = Ret(Str(<<"U+2022", " ", "x", "\n", "U+2022", " ", "y", "\n", "\n">>))

====
